---- MODULE Spec2Model ----
(***************************************************************************)
(* Voice-chat front end: the conversation store (zustand), the dual-path   *)
(* conversation hook, the audio player/recorder facade and the WebSocket   *)
(* service, modelled as state machines.                                    *)
(*                                                                         *)
(*   Spec           store + hook + audio (conversationStore.ts,            *)
(*                  useConversation, AudioPlayer, AudioRecorder)           *)
(*   SpecTransport  WebSocketService connect / disconnect / reconnect      *)
(*   SpecDispatch   WebSocketService handler registry and handleMessage    *)
(*   SpecWatchdog   useConversation's inactivity watchdog and goodbye       *)
(*                  sequence, with the values its callbacks close over      *)
(***************************************************************************)
EXTENDS Integers, Sequences, FiniteSets, TLC

VARIABLES
    store,          \* the zustand conversation store (one record)
    wsOpen,         \* websocketService.isConnected(): current socket is OPEN
    player,         \* AudioPlayer.currentAudio: "none" | "loading" | "playing" | "ended"
    pendingPlay,    \* a 'play' event still queued on a detached element
    pendingPause,   \* a 'pause' event queued by pause() on a detached element
    pendingAbort,   \* a play() promise rejected by pause() before playback began
    recorder,       \* AudioRecorder.mediaRecorder: "uninit" (null) | "inactive" | "recording"
    pendingStop,    \* stopRecording's 'stop' listener has not run yet
    audioCallbacks, \* the hook's audio callbacks are in the player's / recorder's arrays
    turnLog,        \* LLM response messages handled since the buffers were last emptied
    lastOp,         \* the operation that produced this state
    pre,            \* the session before the last operation (interrupt, connection loss)
    fx,             \* side effects of the last operation, in program order
    interruptRun,   \* consecutive interrupt() calls that began in Speaking
    ttsSeen,        \* tts_result / tts_final_result messages handled in the current turn
    histMark,       \* length of conversationHistory when the current turn began
    sockets,        \* WebSocketService: every WebSocket object created so far
    ws,             \* WebSocketService.ws: index into sockets, 0 = null
    reconnectAttempts,
    isManualClose,
    heartbeatInterval, \* WebSocketService.heartbeatInterval is set
    liveIntervals,  \* setInterval timers that were started and never cleared
    timers,         \* pending reconnect setTimeout callbacks (their delays)
    status,         \* last value passed to notifyConnectionChange
    explicitConnects,  \* connect() calls made by the caller (bounded)
    schedLog,       \* delays of the reconnects scheduled since the last open / explicit connect
    sinceDisconnect,   \* disconnect() was called and connect() not yet called by the caller
    unanswered,     \* heartbeats sent on the current connection since the last heartbeat_ack
    tlast,          \* the service's last operation: a send with its outcome, a tick
                    \* (with the parity of the run of ticks), or other
    handlers,       \* messageHandlers.get(type): the live array of handler ids
    dispatching,    \* a forEach over handlers is in progress
    dIdx,           \* forEach: next index to visit (1-based)
    dLen,           \* forEach: array length sampled when the loop began
    atStart,        \* handlers registered when the dispatch began
    removed,        \* handlers unregistered during the dispatch
    invoked,        \* handlers invoked so far in the dispatch, in order
    threw,          \* handlers whose call threw during the dispatch
    lastFrame,      \* the last frame given to handleMessage: "none" | "message" | "garbage"
    prevFrame,      \* the frame before it
    userActivityTimeout, \* the pending inactivity timer: "none" | "fresh" (just armed)
                    \* | "aged" (INACTIVITY_TIMEOUT has elapsed since it was armed)
    timerClosure,   \* isRecording as closed over by the pending timer's callback
    isGoodbyePlaying,  \* the hook's re-entrancy ref
    goodbyes,       \* goodbye sequences begun and not yet completed
    closure,        \* isConnected / isRecording / isPlaying as of the last render
    registered,     \* the handlers of the registering effect are still registered
    wlast,          \* the watchdog's last operation
    chunkCalls,     \* sendAudioChunk calls made so far, in the order of the calls
    encoding,       \* calls still awaiting blob.arrayBuffer()
    wire,           \* audio_chunk envelopes put on the wire, in order
    dualStore,      \* the dual-path store (conversationStore.ts), fed store events only
    singleStore,    \* the single-path store (part_000), fed the same events
    elements,       \* every Audio element AudioPlayer created, by its playback state
    currentAudio    \* AudioPlayer.currentAudio: an index into elements, 0 for null

sessionVars == << store, wsOpen, player, pendingPlay, pendingPause, pendingAbort,
                  recorder, pendingStop, audioCallbacks, turnLog, lastOp, pre, fx,
                  interruptRun, ttsSeen, histMark >>
transportVars == << sockets, ws, reconnectAttempts, isManualClose, heartbeatInterval,
                    liveIntervals, timers, status,
                    explicitConnects, schedLog, sinceDisconnect, unanswered, tlast >>
dispatchVars == << handlers, dispatching, dIdx, dLen, atStart, removed,
                   invoked, threw, lastFrame, prevFrame >>
watchdogVars == << userActivityTimeout, timerClosure, isGoodbyePlaying, goodbyes,
                  closure, registered, wlast >>
chunkVars == << chunkCalls, encoding, wire >>
pairVars == << dualStore, singleStore >>
playerVars == << elements, currentAudio >>
vars ==
    << sessionVars, transportVars, dispatchVars, watchdogVars, chunkVars, pairVars,
       playerVars >>

----
(* Bounds of the model *)
MaxHistory == 2
MaxTurnLog == 2
MaxSockets == 6
MaxExplicitConnects == 2
MaxHandlers == 3
MaxUnanswered == 3

(* Program constants *)
maxReconnectAttempts == 5
reconnectDelay == 1000

----
(***************************************************************************)
(* The conversation store (conversationStore.ts).  Every store action is   *)
(* an operator from the store record to the store record.                  *)
(***************************************************************************)
ConversationStates ==
    { "idle", "listening", "thinking", "speaking", "error", "connecting", "disconnected" }

LLMTexts == { "A", "B" }
STTTexts == { "hi" }
PatienceTexts == { "wait" }
ServerErrors == { "SERVER_ERROR", "STT_FAILED" }

\* JavaScript a || b on strings: the empty string is falsy
OrElse(a, b) == IF a # "" THEN a ELSE b

initialState ==
    [ state |-> "idle", isConnected |-> FALSE, isRecording |-> FALSE,
      currentText |-> "", finalText |-> "", aiResponse |-> "",
      immediateResponse |-> "", finalResponse |-> "", hasFinalResponse |-> FALSE,
      patienceMessage |-> "", error |-> "null", conversationHistory |-> << >>,
      isPlaying |-> FALSE ]

\* setConnected without the reset of isPlaying
setConnectedKeepsPlaying(st, connected) ==
    IF ~connected
    THEN [ st EXCEPT !.isConnected = FALSE, !.state = "disconnected",
                     !.isRecording = FALSE, !.error = "null",
                     !.immediateResponse = "", !.finalResponse = "",
                     !.hasFinalResponse = FALSE, !.patienceMessage = "" ]
    ELSE [ st EXCEPT !.isConnected = TRUE, !.state = "idle", !.error = "null" ]

setConnected(st, connected) ==
    IF ~connected
    THEN [ st EXCEPT !.isConnected = FALSE, !.state = "disconnected",
                     !.isRecording = FALSE, !.isPlaying = FALSE, !.error = "null",
                     !.immediateResponse = "", !.finalResponse = "",
                     !.hasFinalResponse = FALSE, !.patienceMessage = "" ]
    ELSE [ st EXCEPT !.isConnected = TRUE, !.state = "idle", !.error = "null" ]

setRecording(st, recording) ==
    IF recording
    THEN [ st EXCEPT !.isRecording = TRUE, !.state = "listening",
                     !.currentText = "", !.error = "null" ]
    ELSE [ st EXCEPT !.isRecording = FALSE ]

setError(st, error) ==
    IF error # "null"
    THEN [ st EXCEPT !.error = error, !.state = "error",
                     !.isRecording = FALSE, !.isPlaying = FALSE ]
    ELSE [ st EXCEPT !.error = "null" ]

setPlaying(st, playing) ==
    IF playing
    THEN [ st EXCEPT !.isPlaying = TRUE, !.state = "speaking" ]
    ELSE IF st.state = "speaking"
         THEN [ st EXCEPT !.isPlaying = FALSE, !.state = "idle" ]
         ELSE [ st EXCEPT !.isPlaying = FALSE ]

\* addConversationTurn that overwrites the last Turn when there is one
addConversationTurnReplacing(st, turn) ==
    IF st.conversationHistory = << >>
    THEN [ st EXCEPT !.conversationHistory = << turn >> ]
    ELSE [ st EXCEPT !.conversationHistory[Len(st.conversationHistory)] = turn ]

addConversationTurn(st, turn) ==
    [ st EXCEPT !.conversationHistory = Append(@, turn) ]

handleConnectionEstablished(st) ==
    [ st EXCEPT !.isConnected = TRUE, !.state = "idle", !.error = "null" ]

handleSTTStart(st) ==
    [ st EXCEPT !.state = "listening", !.currentText = "" ]

handleSTTResult(st, type, text) ==
    IF type = "final"
    THEN [ st EXCEPT !.finalText = text, !.currentText = text,
                     !.state = "thinking", !.isRecording = FALSE ]
    ELSE IF type = "partial"
         THEN [ st EXCEPT !.currentText = text ]
         ELSE st

handleLLMStart(st) ==
    [ st EXCEPT !.state = "thinking", !.immediateResponse = "", !.finalResponse = "",
                !.hasFinalResponse = FALSE, !.patienceMessage = "" ]

handleLLMResponse(st, text) ==
    [ st EXCEPT !.aiResponse = text, !.state = "thinking" ]

\* an immediate response that discards a final response received before it
handleLLMImmediateResponseClearsFinal(st, text) ==
    [ st EXCEPT !.immediateResponse = text, !.finalResponse = "",
                !.hasFinalResponse = FALSE, !.state = "thinking" ]

handleLLMImmediateResponse(st, text) ==
    [ st EXCEPT !.immediateResponse = text, !.state = "thinking" ]

handleLLMFinalResponse(st, text) ==
    [ st EXCEPT !.finalResponse = text, !.hasFinalResponse = TRUE,
                !.state = "thinking" ]

handleLLMPatienceUpdate(st, message) ==
    [ st EXCEPT !.patienceMessage = message ]

handleTTSStart(st) ==
    [ st EXCEPT !.state = "speaking" ]

handleTTSResult(st) ==
    addConversationTurn(st,
        [ userInput |-> st.finalText,
          aiResponse |-> OrElse(st.aiResponse,
                                OrElse(st.finalResponse, st.immediateResponse)) ])

handleTTSImmediateStart(st) ==
    [ st EXCEPT !.state = "speaking" ]

handleTTSImmediateResult(st) == st

handleTTSFinalStart(st) ==
    [ st EXCEPT !.state = "speaking" ]

\* the response text the store reports for the turn: finalResponse || immediateResponse
\* the response text with the preference reversed
ResponseTextImmediateFirst(st) == OrElse(st.immediateResponse, st.finalResponse)

ResponseText(st) == OrElse(st.finalResponse, st.immediateResponse)

handleTTSFinalResult(st) ==
    addConversationTurn(st,
        [ userInput |-> st.finalText, aiResponse |-> ResponseText(st) ])

handleTTSUnavailable(st) ==
    [ st EXCEPT !.state = "idle", !.error = "TTS_UNAVAILABLE" ]

\* handleError without the reset of isPlaying
handleErrorKeepsPlaying(st, errorData) ==
    [ st EXCEPT !.error = errorData, !.state = "error", !.isRecording = FALSE ]

handleError(st, errorData) ==
    [ st EXCEPT !.error = errorData, !.state = "error",
                !.isRecording = FALSE, !.isPlaying = FALSE ]

\* triggerInterrupt without the reset of the dual-path fields
triggerInterruptKeepsBuffers(st) ==
    [ st EXCEPT !.state = "idle", !.isPlaying = FALSE ]

triggerInterrupt(st) ==
    [ st EXCEPT !.state = "idle", !.isPlaying = FALSE,
                !.immediateResponse = "", !.finalResponse = "",
                !.hasFinalResponse = FALSE, !.patienceMessage = "" ]

DualPathEmpty(st) ==
    /\ st.immediateResponse = ""
    /\ st.finalResponse = ""
    /\ st.hasFinalResponse = FALSE
    /\ st.patienceMessage = ""

----
(***************************************************************************)
(* The session: store, socket status, audio player and recorder, seen as   *)
(* one record so that a handler is the composition of the calls it makes.  *)
(* fx collects the side effects of the running operation in program order. *)
(***************************************************************************)
Session ==
    [ store |-> store, wsOpen |-> wsOpen, player |-> player,
      pendingPlay |-> pendingPlay, pendingPause |-> pendingPause,
      pendingAbort |-> pendingAbort, recorder |-> recorder,
      pendingStop |-> pendingStop, audioCallbacks |-> audioCallbacks,
      fx |-> << >> ]

\* sendMessage with neither the isConnected() check nor the try/catch
sendMessageUnguarded(s, type, sendOk) ==
    IF s.wsOpen /\ sendOk THEN [ s EXCEPT !.fx = Append(@, "send:" \o type) ]
    ELSE [ s EXCEPT !.fx = Append(@, "throw:" \o type) ]

\* WebSocketService.sendMessage: nothing is sent unless the socket is OPEN; a
\* throwing ws.send is caught (sendOk = FALSE)
sendMessage(s, type, sendOk) ==
    IF ~s.wsOpen THEN s
    ELSE IF sendOk THEN [ s EXCEPT !.fx = Append(@, "send:" \o type) ]
    ELSE s

sendInterrupt(s, sendOk) == sendMessage(s, "interrupt", sendOk)

\* WebSocketService.sendAudioChunk: the envelope is sent after an awaited
\* blob.arrayBuffer(); the call itself is recorded
sendAudioChunk(s, isLast) ==
    [ s EXCEPT !.fx = Append(@, IF isLast THEN "call:sendAudioChunk(last)"
                                          ELSE "call:sendAudioChunk") ]

handlePlaybackState(s, playing) ==
    [ s EXCEPT !.store = setPlaying(@, playing) ]

notifyPlaybackState(s, playing) ==
    IF s.audioCallbacks THEN handlePlaybackState(s, playing) ELSE s

handleRecordingState(s, recording) ==
    LET s1 == [ s EXCEPT !.store = setRecording(@, recording) ]
    IN  IF recording THEN s1 ELSE sendAudioChunk(s1, TRUE)

notifyRecordingState(s, recording) ==
    IF s.audioCallbacks THEN handleRecordingState(s, recording) ELSE s

handleAudioChunk(s) == sendAudioChunk(s, FALSE)

\* AudioPlayer.stopAudio: only when an element is current; pause() on an element
\* that is not paused queues its 'pause' event, and rejects a play() promise that
\* is still pending
stopAudio(s) ==
    IF s.player = "none" THEN s
    ELSE notifyPlaybackState(
            [ s EXCEPT !.player = "none",
                       !.pendingPlay = (@ \/ s.player = "loading"),
                       !.pendingPause = (@ \/ s.player \in { "loading", "playing" }),
                       !.pendingAbort = (@ \/ s.player = "loading"),
                       !.fx = Append(@, "player.stop") ],
            FALSE)

\* AudioPlayer.playAudio with autoplay: stops the current element, creates one
\* and calls play() on it
playAudio(s) ==
    [ stopAudio(s) EXCEPT !.player = "loading", !.fx = Append(@, "player.play") ]

\* AudioService.startRecording -> AudioRecorder.startRecording (MediaRecorder
\* path).  The facade drops the promise, so a rejection reaches no caller.
startRecording(s) ==
    IF s.recorder = "uninit"
    THEN [ s EXCEPT !.fx = Append(@, "recorder.start:rejected") ]
    ELSE IF s.recorder = "recording" THEN s
    ELSE notifyRecordingState(
            [ s EXCEPT !.recorder = "recording",
                       !.fx = Append(@, "recorder.start") ],
            TRUE)

\* AudioRecorder.stopRecording (MediaRecorder path): rejects when nothing is
\* recording; otherwise stop() and the 'stop' listener runs later
stopRecording(s) ==
    IF s.recorder # "recording"
    THEN [ s EXCEPT !.fx = Append(@, "recorder.stop:rejected") ]
    ELSE [ s EXCEPT !.recorder = "inactive", !.pendingStop = TRUE,
                    !.fx = Append(@, "recorder.stop") ]

\* AudioService.cleanup: the recorder first (its callbacks are dropped), then
\* the player, whose stopAudio still notifies before its callbacks are dropped
cleanup(s) ==
    LET s1 == [ s EXCEPT !.recorder = "uninit", !.pendingStop = FALSE ]
        s2 == stopAudio(s1)
    IN  [ s2 EXCEPT !.audioCallbacks = FALSE ]

\* useConversation.playTTSAudio up to its await: atob throws on a malformed payload
playTTSAudio(s, audio) ==
    IF audio = "bad"
    THEN [ s EXCEPT !.store = setError(@, "AUDIO_PROCESSING_FAILED") ]
    ELSE playAudio(s)

\* useConversation.interrupt: (1) interrupt envelope, (2) stop playback,
\* (3) clear the store, (4) restart capture and mark the store as recording.
\* No step is guarded by the lifecycle state and none can throw to the next.
\* an interrupt that gives up when the envelope could not be sent
interruptStopsOnSendFailure(s, sendOk) ==
    IF ~(s.wsOpen /\ sendOk) THEN s
    ELSE LET s1 == sendInterrupt(s, sendOk)
             s2 == stopAudio(s1)
             s3 == [ s2 EXCEPT !.store = setPlaying(@, FALSE) ]
             s4 == [ s3 EXCEPT !.store = triggerInterrupt(@),
                               !.fx = Append(@, "store.triggerInterrupt") ]
             s5 == startRecording(s4)
         IN  [ s5 EXCEPT !.store = setRecording(@, TRUE),
                         !.fx = Append(@, "store.setRecording(true)") ]

interrupt(s, sendOk) ==
    LET s1 == sendInterrupt(s, sendOk)
        s2 == stopAudio(s1)
        s3 == [ s2 EXCEPT !.store = setPlaying(@, FALSE) ]
        s4 == [ s3 EXCEPT !.store = triggerInterrupt(@),
                          !.fx = Append(@, "store.triggerInterrupt") ]
        s5 == startRecording(s4)
    IN  [ s5 EXCEPT !.store = setRecording(@, TRUE),
                    !.fx = Append(@, "store.setRecording(true)") ]

----
(***************************************************************************)
(* Actions of the session specification                                    *)
(***************************************************************************)
\* what the properties need of the session an operation started from
Snapshot(sendOk) ==
    [ state |-> store.state, isRecording |-> store.isRecording,
      isPlaying |-> store.isPlaying, buffers |-> ~DualPathEmpty(store),
      player |-> player, wsOpen |-> wsOpen, recorder |-> recorder,
      sendOk |-> sendOk ]

NoPre ==
    [ state |-> "idle", isRecording |-> FALSE, isPlaying |-> FALSE, buffers |-> FALSE,
      player |-> "none", wsOpen |-> FALSE, recorder |-> "uninit", sendOk |-> FALSE ]

\* the registries and the transport are not touched by the session's actions
OthersUnchanged ==
    UNCHANGED << transportVars, dispatchVars, watchdogVars, chunkVars, pairVars, playerVars >>

\* the operations whose outcome the properties below speak about
TrackedOps ==
    { "interrupt", "connectionLost", "stt_start", "llm_start",
      "llm_immediate_response", "llm_final_response",
      "stt_result:final", "recorder.ondataavailable",
      "tts_start", "tts_immediate_start", "tts_final_start" }
    \cup { "error:" \o e : e \in ServerErrors }

\* the operations that empty the response buffers: a turn begins afresh
TurnStartOps == { "llm_start", "interrupt", "connectionLost" }

CommitSession(s, op, snapshot, log, run) ==
    /\ store' = s.store
    /\ wsOpen' = s.wsOpen
    /\ player' = s.player
    /\ pendingPlay' = s.pendingPlay
    /\ pendingPause' = s.pendingPause
    /\ pendingAbort' = s.pendingAbort
    /\ recorder' = s.recorder
    /\ pendingStop' = s.pendingStop
    /\ audioCallbacks' = s.audioCallbacks
    /\ fx' = s.fx
    /\ lastOp' = IF op \in TrackedOps THEN op ELSE "other"
    /\ pre' = snapshot
    /\ turnLog' = log
    /\ interruptRun' = run
    /\ ttsSeen' = IF op \in TurnStartOps THEN {}
                  ELSE IF op \in { "tts_result", "tts_final_result" }
                  THEN ttsSeen \cup { op }
                  ELSE ttsSeen
    /\ histMark' = IF op \in TurnStartOps THEN Len(s.store.conversationHistory)
                   ELSE histMark

Commit(s, op, snapshot, log, run) ==
    /\ CommitSession(s, op, snapshot, log, run)
    /\ OthersUnchanged

\* the message types useConversation registers a handler for
RegisteredTypes ==
    { "connection_established", "stt_start", "stt_result", "llm_start", "llm_response",
      "llm_immediate_response", "llm_final_response", "llm_patience_update",
      "tts_start", "tts_result", "tts_immediate_result", "tts_final_result",
      "tts_unavailable", "heartbeat_ack", "error" }

\* WebSocketService.handleMessage: a message whose type has no handler is dropped
Handled(st, type, handled) == IF type \in RegisteredTypes THEN handled ELSE st

\* a store-only handler of an inbound message
Deliver(st, op, log) ==
    /\ wsOpen
    /\ Commit([ Session EXCEPT !.store = st ], op, NoPre, log, 0)

\* ws.onopen -> notifyConnectionChange(true) -> handleConnection(true)
SocketOpened ==
    /\ ~wsOpen
    /\ Commit([ Session EXCEPT !.wsOpen = TRUE, !.store = setConnected(@, TRUE) ],
              "connectionOpened", NoPre, turnLog, 0)

\* ws.onclose -> notifyConnectionChange(false) -> handleConnection(false); also
\* fires for a socket that never opened
SocketClosed ==
    Commit([ Session EXCEPT !.wsOpen = FALSE, !.store = setConnected(@, FALSE) ],
           "connectionLost", Snapshot(FALSE), << >>, 0)

\* useConversation.connect: websocketService.connect() rejected
ConnectFailed ==
    /\ ~wsOpen
    /\ Commit([ Session EXCEPT !.store = setError(@, "CONNECTION_FAILED") ],
              "connectFailed", NoPre, turnLog, 0)

\* useConversation.disconnect: websocketService.disconnect() drops the socket
\* (its close event follows as SocketClosed), then audioService.cleanup()
Disconnect ==
    Commit(cleanup([ Session EXCEPT !.wsOpen = FALSE ]), "disconnect", NoPre, turnLog, 0)

\* audioService.initializeRecording succeeded
InitializeRecording ==
    /\ recorder = "uninit"
    /\ Commit([ Session EXCEPT !.recorder = "inactive" ], "initializeRecording",
              NoPre, turnLog, 0)

\* useConversation.startConversation; `await` of the facade's void result never throws
StartConversation ==
    \E sendOk \in BOOLEAN :
        LET s1 == startRecording(Session)
            s2 == sendMessage(s1, "start_conversation", sendOk)
        IN  Commit([ s2 EXCEPT !.store = setRecording(@, TRUE) ], "startConversation",
                   NoPre, turnLog, 0)

\* useConversation.stopConversation
StopConversation ==
    \E sendOk \in BOOLEAN :
        LET s1 == stopRecording(Session)
            s2 == sendMessage(s1, "end_conversation", sendOk)
        IN  Commit([ s2 EXCEPT !.store = setRecording(@, FALSE) ], "stopConversation",
                   NoPre, turnLog, 0)

\* useConversation.interrupt, called by any caller in any state
Interrupt ==
    \E sendOk \in BOOLEAN :
        Commit(interrupt(Session, sendOk), "interrupt",
               Snapshot(sendOk),
               << >>,
               IF store.state = "speaking" /\ store.isPlaying THEN 1
               ELSE IF lastOp = "interrupt" /\ interruptRun = 1 THEN 2
               ELSE 0)

\* inbound messages, dispatched to the handlers the hook registers ------------
MsgConnectionEstablished ==
    Deliver(handleConnectionEstablished(store), "connection_established", turnLog)

MsgSTTStart == Deliver(handleSTTStart(store), "stt_start", turnLog)

MsgSTTResult ==
    \E type \in { "partial", "final" }, text \in STTTexts :
        /\ wsOpen
        /\ Commit([ Session EXCEPT !.store = handleSTTResult(@, type, text) ],
                  "stt_result:" \o type, Snapshot(FALSE), turnLog, 0)

MsgLLMStart == Deliver(handleLLMStart(store), "llm_start", << >>)

MsgLLMResponse ==
    \E text \in LLMTexts :
        /\ Len(turnLog) < MaxTurnLog
        /\ Deliver(handleLLMResponse(store, text), "llm_response",
                   Append(turnLog, << "legacy", text >>))

MsgLLMImmediateResponse ==
    \E text \in LLMTexts :
        /\ Len(turnLog) < MaxTurnLog
        /\ Deliver(handleLLMImmediateResponse(store, text), "llm_immediate_response",
                   Append(turnLog, << "immediate", text >>))

MsgLLMFinalResponse ==
    \E text \in LLMTexts :
        /\ Len(turnLog) < MaxTurnLog
        /\ Deliver(handleLLMFinalResponse(store, text), "llm_final_response",
                   Append(turnLog, << "final", text >>))

MsgLLMPatienceUpdate ==
    \E message \in PatienceTexts :
        Deliver(handleLLMPatienceUpdate(store, message), "llm_patience_update", turnLog)

MsgTTSStart == Deliver(handleTTSStart(store), "tts_start", turnLog)

\* the dual-path start messages, for which the store has handlers
MsgTTSImmediateStart ==
    /\ wsOpen
    /\ Commit([ Session EXCEPT !.store =
                  Handled(@, "tts_immediate_start", handleTTSImmediateStart(@)) ],
              "tts_immediate_start", Snapshot(FALSE), turnLog, 0)

MsgTTSFinalStart ==
    /\ wsOpen
    /\ Commit([ Session EXCEPT !.store =
                  Handled(@, "tts_final_start", handleTTSFinalStart(@)) ],
              "tts_final_start", Snapshot(FALSE), turnLog, 0)

\* tts_result has two handlers, in registration order: handleTTSResult, handleTTSAudio
MsgTTSResult ==
    \E audio \in { "none", "ok", "bad" } :
        /\ wsOpen
        /\ "tts_result" \notin ttsSeen
        /\ Len(store.conversationHistory) < MaxHistory
        /\ LET s1 == [ Session EXCEPT !.store = handleTTSResult(@) ]
               s2 == IF audio = "none" THEN s1 ELSE playTTSAudio(s1, audio)
           IN  Commit(s2, "tts_result", NoPre, turnLog, 0)

\* wrappedTTSImmediateResult
MsgTTSImmediateResult ==
    \E audio \in { "none", "ok", "bad" } :
        /\ wsOpen
        /\ LET s1 == IF audio = "none" THEN Session ELSE playTTSAudio(Session, audio)
           IN  Commit([ s1 EXCEPT !.store = handleTTSImmediateResult(@) ],
                      "tts_immediate_result", NoPre, turnLog, 0)

\* wrappedTTSFinalResult
MsgTTSFinalResult ==
    \E audio \in { "none", "ok", "bad" } :
        /\ wsOpen
        /\ "tts_final_result" \notin ttsSeen
        /\ Len(store.conversationHistory) < MaxHistory
        /\ LET s1 == IF audio = "none" THEN Session ELSE playTTSAudio(Session, audio)
           IN  Commit([ s1 EXCEPT !.store = handleTTSFinalResult(@) ],
                      "tts_final_result", NoPre, turnLog, 0)

MsgTTSUnavailable == Deliver(handleTTSUnavailable(store), "tts_unavailable", turnLog)

MsgError ==
    \E errorData \in ServerErrors :
        Deliver(handleError(store, errorData), "error:" \o errorData, turnLog)

\* events of the audio elements and of the MediaRecorder ----------------------
\* 'play' on the current element
AudioPlayEvent ==
    /\ player = "loading"
    /\ Commit(notifyPlaybackState([ Session EXCEPT !.player = "playing" ], TRUE),
              "audio.onplay", NoPre, turnLog, 0)

\* playback reached the end: 'pause' and 'ended', both notify false
AudioEndedEvent ==
    /\ player = "playing"
    /\ Commit(notifyPlaybackState([ Session EXCEPT !.player = "ended" ], FALSE),
              "audio.onended", NoPre, turnLog, 0)

\* 'error' on the current element: notify false, and playTTSAudio's catch
AudioErrorEvent ==
    /\ player \in { "loading", "playing" }
    /\ LET s1 == notifyPlaybackState([ Session EXCEPT !.player = "ended" ], FALSE)
       IN  Commit([ s1 EXCEPT !.store = setError(@, "AUDIO_PROCESSING_FAILED") ],
                  "audio.onerror", NoPre, turnLog, 0)

\* events still queued on an element that stopAudio detached
DetachedPlayEvent ==
    /\ pendingPlay
    /\ Commit(notifyPlaybackState([ Session EXCEPT !.pendingPlay = FALSE ], TRUE),
              "detached.onplay", NoPre, turnLog, 0)

DetachedPauseEvent ==
    /\ pendingPause
    /\ ~pendingPlay
    /\ Commit(notifyPlaybackState([ Session EXCEPT !.pendingPause = FALSE ], FALSE),
              "detached.onpause", NoPre, turnLog, 0)

\* the play() promise of a detached element rejects: playTTSAudio's catch
PlayAborted ==
    /\ pendingAbort
    /\ Commit([ Session EXCEPT !.pendingAbort = FALSE,
                               !.store = setError(@, "AUDIO_PROCESSING_FAILED") ],
              "play.aborted", NoPre, turnLog, 0)

\* MediaRecorder 'stop' -> handleStop -> notifyRecordingState(false)
RecorderStopEvent ==
    /\ pendingStop
    /\ Commit(notifyRecordingState([ Session EXCEPT !.pendingStop = FALSE ], FALSE),
              "recorder.onstop", NoPre, turnLog, 0)

\* MediaRecorder 'dataavailable' -> notifyAudioChunk -> handleAudioChunk
RecorderChunkEvent ==
    /\ recorder = "recording"
    /\ audioCallbacks
    /\ Commit(handleAudioChunk(Session), "recorder.ondataavailable", NoPre, turnLog, 0)

----
(***************************************************************************)
(* Initial values of the three parts, and the session specification        *)
(***************************************************************************)
SessionInit ==
    /\ store = initialState
    /\ wsOpen = FALSE
    /\ player = "none"
    /\ pendingPlay = FALSE
    /\ pendingPause = FALSE
    /\ pendingAbort = FALSE
    /\ recorder = "uninit"
    /\ pendingStop = FALSE
    /\ audioCallbacks = TRUE
    /\ turnLog = << >>
    /\ lastOp = "init"
    /\ pre = NoPre
    /\ fx = << >>
    /\ interruptRun = 0
    /\ ttsSeen = {}
    /\ histMark = 0

TransportInit ==
    /\ sockets = << >>
    /\ ws = 0
    /\ reconnectAttempts = 0
    /\ isManualClose = FALSE
    /\ heartbeatInterval = FALSE
    /\ liveIntervals = 0
    /\ timers = << >>
    /\ status = "none"
    /\ explicitConnects = 0
    /\ schedLog = << >>
    /\ sinceDisconnect = FALSE
    /\ unanswered = 0
    /\ tlast = [ op |-> "other" ]

DispatchInit ==
    /\ handlers = << >>
    /\ dispatching = FALSE
    /\ dIdx = 0
    /\ dLen = 0
    /\ atStart = << >>
    /\ removed = {}
    /\ invoked = << >>
    /\ threw = {}
    /\ lastFrame = "none"
    /\ prevFrame = "none"

\* what the callbacks of the first render close over: the store's initial values
FirstRender ==
    [ isConnected |-> initialState.isConnected,
      isRecording |-> initialState.isRecording,
      isPlaying |-> initialState.isPlaying ]

\* the first render: nothing armed, the effect has registered its handlers
WatchdogInit ==
    /\ userActivityTimeout = "none"
    /\ timerClosure = FALSE
    /\ isGoodbyePlaying = FALSE
    /\ goodbyes = << >>
    /\ closure = FirstRender
    /\ registered = TRUE
    /\ wlast = [ op |-> "other" ]

ChunkInit ==
    /\ chunkCalls = 0
    /\ encoding = {}
    /\ wire = << >>

(***************************************************************************)
(* The single-path conversation store (part_000): the store before the     *)
(* dual-path fields and the per-message handlers were added.               *)
(***************************************************************************)
single_initialState ==
    [ state |-> "idle", isConnected |-> FALSE, isRecording |-> FALSE,
      currentText |-> "", finalText |-> "", aiResponse |-> "", error |-> "null",
      conversationHistory |-> << >>, isPlaying |-> FALSE ]

single_setConnected(st, connected) ==
    IF ~connected
    THEN [ st EXCEPT !.isConnected = FALSE, !.state = "disconnected",
                     !.isRecording = FALSE, !.isPlaying = FALSE, !.error = "null" ]
    ELSE [ st EXCEPT !.isConnected = TRUE ]

single_setRecording(st, recording) ==
    IF recording
    THEN [ st EXCEPT !.isRecording = TRUE, !.state = "listening",
                     !.currentText = "", !.error = "null" ]
    ELSE [ st EXCEPT !.isRecording = FALSE ]

single_setCurrentText(st, text) ==
    [ st EXCEPT !.currentText = text ]

single_setFinalText(st, text) ==
    [ st EXCEPT !.finalText = text, !.currentText = text, !.state = "thinking" ]

single_setAiResponse(st, response) ==
    [ st EXCEPT !.aiResponse = response, !.state = "speaking" ]

single_setError(st, error) ==
    IF error # "null"
    THEN [ st EXCEPT !.error = error, !.state = "error",
                     !.isRecording = FALSE, !.isPlaying = FALSE ]
    ELSE [ st EXCEPT !.error = "null" ]

single_setPlaying(st, playing) ==
    IF ~playing /\ st.state = "speaking"
    THEN [ st EXCEPT !.isPlaying = FALSE, !.state = "idle" ]
    ELSE [ st EXCEPT !.isPlaying = playing ]

single_handleSTTData(st, isFinal, text) ==
    IF isFinal THEN single_setFinalText(st, text) ELSE single_setCurrentText(st, text)

single_handleLLMResponse(st, text) == single_setAiResponse(st, text)

single_triggerInterrupt(st) ==
    IF st.state = "speaking"
    THEN [ st EXCEPT !.state = "listening", !.isPlaying = FALSE, !.aiResponse = "" ]
    ELSE st

PairInit ==
    /\ dualStore = initialState
    /\ singleStore = single_initialState

PlayerInit ==
    /\ elements = << >>
    /\ currentAudio = 0

Init ==
    /\ SessionInit /\ TransportInit /\ DispatchInit /\ WatchdogInit /\ ChunkInit
    /\ PairInit /\ PlayerInit

\* The whole program.
NextAll ==
    \/ SocketOpened
    \/ SocketClosed
    \/ ConnectFailed
    \/ Disconnect
    \/ InitializeRecording
    \/ StartConversation
    \/ StopConversation
    \/ Interrupt
    \/ MsgConnectionEstablished
    \/ MsgSTTStart
    \/ MsgSTTResult
    \/ MsgLLMStart
    \/ MsgLLMResponse
    \/ MsgLLMImmediateResponse
    \/ MsgLLMFinalResponse
    \/ MsgLLMPatienceUpdate
    \/ MsgTTSStart
    \/ MsgTTSResult
    \/ MsgTTSImmediateResult
    \/ MsgTTSFinalResult
    \/ MsgTTSUnavailable
    \/ MsgError
    \/ AudioPlayEvent
    \/ AudioEndedEvent
    \/ AudioErrorEvent
    \/ DetachedPlayEvent
    \/ DetachedPauseEvent
    \/ PlayAborted
    \/ RecorderStopEvent
    \/ RecorderChunkEvent

SpecAll == Init /\ [][NextAll]_vars

\* The store under the dual-path protocol: connection events, starting a
\* conversation, the dual-path messages of a turn and the playback they cause.
Next ==
    \/ SocketOpened
    \/ SocketClosed
    \/ StartConversation
    \/ MsgSTTStart
    \/ MsgLLMStart
    \/ MsgLLMImmediateResponse
    \/ MsgLLMFinalResponse
    \/ MsgLLMPatienceUpdate
    \/ MsgTTSStart
    \/ MsgTTSImmediateResult
    \/ MsgError
    \/ AudioPlayEvent
    \/ AudioEndedEvent
    \/ DetachedPlayEvent
    \/ DetachedPauseEvent
    \/ PlayAborted

Spec == Init /\ [][Next]_vars

\* The hook's controls: connect / disconnect, start / stop / interrupt, with the
\* messages that fill the response buffers and start playback.
NextControl ==
    \/ SocketOpened
    \/ SocketClosed
    \/ Disconnect
    \/ InitializeRecording
    \/ StartConversation
    \/ StopConversation
    \/ Interrupt
    \/ MsgLLMImmediateResponse
    \/ MsgLLMFinalResponse
    \/ MsgTTSStart
    \/ MsgTTSImmediateResult
    \/ AudioPlayEvent
    \/ AudioEndedEvent
    \/ DetachedPlayEvent
    \/ DetachedPauseEvent
    \/ PlayAborted
    \/ RecorderStopEvent

SpecControl == Init /\ [][NextControl]_vars

\* Capture: the recorder, the transcript messages and the chunks sent meanwhile.
NextCapture ==
    \/ SocketOpened
    \/ SocketClosed
    \/ InitializeRecording
    \/ StartConversation
    \/ StopConversation
    \/ MsgSTTStart
    \/ MsgSTTResult
    \/ RecorderChunkEvent
    \/ RecorderStopEvent

SpecCapture == Init /\ [][NextCapture]_vars

\* The start of speech: the TTS start messages of either path in a turn.
NextTTSStart ==
    \/ SocketOpened
    \/ SocketClosed
    \/ StartConversation
    \/ MsgSTTStart
    \/ MsgSTTResult
    \/ MsgLLMStart
    \/ MsgLLMImmediateResponse
    \/ MsgTTSStart
    \/ MsgTTSImmediateStart
    \/ MsgTTSFinalStart

SpecTTSStart == Init /\ [][NextTTSStart]_vars

\* Turns: the messages of single-path and dual-path turns, the Turn records
\* they append, and what may come between them.
NextTurn ==
    \/ SocketOpened
    \/ SocketClosed
    \/ Interrupt
    \/ MsgLLMStart
    \/ MsgLLMFinalResponse
    \/ MsgTTSResult
    \/ MsgTTSFinalResult
    \/ MsgError
    \/ AudioPlayEvent
    \/ AudioEndedEvent
    \/ DetachedPlayEvent
    \/ DetachedPauseEvent
    \/ PlayAborted

SpecTurn == Init /\ [][NextTurn]_vars

----
(***************************************************************************)
(* WebSocketService: connect, disconnect, the socket's events and the      *)
(* reconnect timers.  sockets[i] is the readyState of the i-th WebSocket   *)
(* the service created; each keeps the handlers connect() gave it.         *)
(***************************************************************************)
SessionUnchanged == UNCHANGED << sessionVars, watchdogVars, chunkVars, pairVars, playerVars >>

\* WebSocketService.stopHeartbeat / startHeartbeat, as (ref set, live timers)
stopHeartbeat(hb) == IF hb[1] THEN << FALSE, hb[2] - 1 >> ELSE hb

startHeartbeat(hb) == << TRUE, hb[2] + 1 >>

\* the delay attemptReconnect gives its timer, after the increment
ReconnectDelayOf(attempts) == reconnectDelay * attempts

\* the guard of ws.onclose with the bound off by one
ShouldReconnectInclusive(manual, attempts) == ~manual /\ attempts <= maxReconnectAttempts

\* the guard of ws.onclose
ShouldReconnect(manual, attempts) == ~manual /\ attempts < maxReconnectAttempts

\* the body of connect(): a new socket becomes the current one
connect ==
    /\ Len(sockets) < MaxSockets
    /\ isManualClose' = FALSE
    /\ sockets' = Append(sockets, "connecting")
    /\ ws' = Len(sockets) + 1

\* connect() called by the application
Connect ==
    /\ explicitConnects < MaxExplicitConnects
    /\ connect
    /\ explicitConnects' = explicitConnects + 1
    /\ schedLog' = << >>
    /\ sinceDisconnect' = FALSE
    /\ tlast' = [ op |-> "other" ]
    /\ UNCHANGED << reconnectAttempts, heartbeatInterval, liveIntervals, timers, status,
                    unanswered >>
    /\ UNCHANGED dispatchVars /\ SessionUnchanged

\* ws.onopen
SocketOnOpen ==
    \E i \in 1..Len(sockets) :
        /\ sockets[i] = "connecting"
        /\ sockets' = [ sockets EXCEPT ![i] = "open" ]
        /\ reconnectAttempts' = 0
        /\ LET hb == startHeartbeat(<< heartbeatInterval, liveIntervals >>)
           IN  heartbeatInterval' = hb[1] /\ liveIntervals' = hb[2]
        /\ status' = "connected"
        /\ schedLog' = << >>
        /\ unanswered' = 0
        /\ tlast' = [ op |-> "other" ]
        /\ UNCHANGED << ws, isManualClose, timers, explicitConnects, sinceDisconnect >>
        /\ UNCHANGED dispatchVars /\ SessionUnchanged

\* ws.onclose: the connection failed, dropped, or was closed by disconnect()
SocketOnClose ==
    \E i \in 1..Len(sockets) :
        /\ sockets[i] \in { "connecting", "open", "closing" }
        /\ sockets' = [ sockets EXCEPT ![i] = "closed" ]
        /\ LET hb == stopHeartbeat(<< heartbeatInterval, liveIntervals >>)
           IN  heartbeatInterval' = hb[1] /\ liveIntervals' = hb[2]
        /\ status' = "disconnected"
        /\ IF ShouldReconnect(isManualClose, reconnectAttempts)
           THEN \* attemptReconnect: isManualClose is false here
                /\ reconnectAttempts' = reconnectAttempts + 1
                /\ timers' = Append(timers, ReconnectDelayOf(reconnectAttempts + 1))
                /\ schedLog' = Append(schedLog, ReconnectDelayOf(reconnectAttempts + 1))
           ELSE UNCHANGED << reconnectAttempts, timers, schedLog >>
        /\ tlast' = [ op |-> "other" ]
        /\ UNCHANGED << ws, isManualClose, explicitConnects, sinceDisconnect, unanswered >>
        /\ UNCHANGED dispatchVars /\ SessionUnchanged

\* a reconnect timer fires and calls connect(); nothing ever cancels the timer
ReconnectTimerFires ==
    \E k \in 1..Len(timers) :
        /\ timers' = [ j \in 1..(Len(timers) - 1) |->
                          IF j < k THEN timers[j] ELSE timers[j + 1] ]
        /\ connect
        /\ UNCHANGED << reconnectAttempts, heartbeatInterval, liveIntervals, status,
                        explicitConnects, schedLog, sinceDisconnect, unanswered, tlast >>
        /\ UNCHANGED dispatchVars /\ SessionUnchanged

\* WebSocketService.disconnect
WsDisconnect ==
    /\ isManualClose' = TRUE
    /\ LET hb == stopHeartbeat(<< heartbeatInterval, liveIntervals >>)
       IN  heartbeatInterval' = hb[1] /\ liveIntervals' = hb[2]
    /\ IF ws # 0
       THEN /\ sockets' = [ sockets EXCEPT ![ws] =
                              IF @ \in { "connecting", "open" } THEN "closing" ELSE @ ]
            /\ ws' = 0
       ELSE UNCHANGED << sockets, ws >>
    /\ sinceDisconnect' = TRUE
    /\ tlast' = [ op |-> "other" ]
    /\ UNCHANGED << reconnectAttempts, timers, status, explicitConnects, schedLog,
                    unanswered >>
    /\ UNCHANGED dispatchVars /\ SessionUnchanged

\* WebSocketService.isConnected
isConnected == ws # 0 /\ sockets[ws] = "open"

\* the envelope types the callers send
SendTypes == { "audio_chunk", "interrupt" }

\* what the service leaves unchanged in a send, a tick and an ack
ConnectionUnchanged ==
    UNCHANGED << sockets, ws, reconnectAttempts, isManualClose, heartbeatInterval,
                 liveIntervals, timers, status, explicitConnects, schedLog,
                 sinceDisconnect >>

\* sendMessage called by the application; sendOk is whether ws.send succeeds
SendEnvelope ==
    \E type \in SendTypes, sendOk \in BOOLEAN :
        /\ tlast' = [ op |-> "send", connected |-> isConnected, sendOk |-> sendOk,
                      type |-> type,
                      fx |-> sendMessage([ wsOpen |-> isConnected, fx |-> << >> ],
                                         type, sendOk).fx ]
        /\ UNCHANGED unanswered
        /\ ConnectionUnchanged
        /\ UNCHANGED dispatchVars /\ SessionUnchanged

\* a setInterval callback of startHeartbeat runs: any interval that was started
\* and not cleared, whether or not heartbeatInterval still refers to it
HeartbeatTick ==
    /\ liveIntervals > 0
    /\ \E sendOk \in BOOLEAN :
           LET sent == isConnected /\
                       sendMessage([ wsOpen |-> isConnected, fx |-> << >> ],
                                   "heartbeat", sendOk).fx # << >>
           IN  unanswered' = IF sent /\ unanswered < MaxUnanswered
                             THEN unanswered + 1 ELSE unanswered
    /\ tlast' = [ op |-> "tick", odd |-> IF tlast.op = "tick" THEN ~tlast.odd ELSE TRUE ]
    /\ ConnectionUnchanged
    /\ UNCHANGED dispatchVars /\ SessionUnchanged

\* heartbeat_ack arrives: handleHeartbeatAck only logs; the service keeps no
\* record of it
HeartbeatAck ==
    /\ isConnected
    /\ unanswered > 0
    /\ unanswered' = 0
    /\ tlast' = [ op |-> "other" ]
    /\ ConnectionUnchanged
    /\ UNCHANGED dispatchVars /\ SessionUnchanged

NextTransport ==
    \/ Connect
    \/ SocketOnOpen
    \/ SocketOnClose
    \/ ReconnectTimerFires
    \/ WsDisconnect

SpecTransport == Init /\ [][NextTransport]_vars

\* the service with its heartbeat and the application's sends
NextHeartbeat ==
    \/ Connect
    \/ SocketOnOpen
    \/ SocketOnClose
    \/ ReconnectTimerFires
    \/ WsDisconnect
    \/ SendEnvelope
    \/ HeartbeatTick
    \/ HeartbeatAck

SpecHeartbeat == Init /\ [][NextHeartbeat]_vars

\* the browser runs an interval's callback every 30 s for as long as the interval
\* is live; nothing obliges the server or the network to close the socket
SpecHeartbeatLive == SpecHeartbeat /\ WF_vars(HeartbeatTick)

----
(***************************************************************************)
(* WebSocketService.sendAudioChunk.  The hook passes a Blob: the call       *)
(* awaits blob.arrayBuffer(), encodes to Base64 and only then calls         *)
(* sendMessage.  The reads of different Blobs run independently, so the     *)
(* calls in flight may resume in any order.                                 *)
(***************************************************************************)
MaxChunks == 3

\* a caller (handleAudioChunk, handleRecordingState(false), the end-of-speech
\* timer) calls sendAudioChunk(blob, isLast); the call suspends at its await
SendAudioChunkCall ==
    /\ chunkCalls < MaxChunks
    /\ \E isLast \in BOOLEAN :
        encoding' = encoding \cup { [ seq |-> chunkCalls + 1, isLast |-> isLast ] }
    /\ chunkCalls' = chunkCalls + 1
    /\ wire' = wire
    /\ UNCHANGED << sessionVars, transportVars, dispatchVars, watchdogVars, pairVars, playerVars >>

\* blob.arrayBuffer() of one suspended call resolves: the envelope goes
\* through sendMessage (dropped when the socket is not OPEN or send throws)
ArrayBufferResolved ==
    /\ \E c \in encoding, sendOk \in BOOLEAN :
        /\ encoding' = encoding \ { c }
        /\ wire' = IF sendMessage([ wsOpen |-> isConnected, fx |-> << >> ],
                                  "audio_chunk", sendOk).fx # << >>
                   THEN Append(wire, c)
                   ELSE wire
    /\ chunkCalls' = chunkCalls
    /\ UNCHANGED << sessionVars, transportVars, dispatchVars, watchdogVars, pairVars, playerVars >>

NextChunks ==
    \/ Connect
    \/ SocketOnOpen
    \/ SocketOnClose
    \/ SendAudioChunkCall
    \/ ArrayBufferResolved

SpecChunks == Init /\ [][NextChunks]_vars

----
(***************************************************************************)
(* The two stores side by side: every event that is not a dual-path        *)
(* message is given to both, each through the action that store has for it.*)
(***************************************************************************)
PairUnchanged ==
    UNCHANGED << sessionVars, transportVars, dispatchVars, watchdogVars, chunkVars, playerVars >>

PairStep(dual, single) ==
    /\ dualStore' = dual
    /\ singleStore' = single
    /\ PairUnchanged

PairConnection ==
    \E connected \in BOOLEAN :
        PairStep(setConnected(dualStore, connected),
                 single_setConnected(singleStore, connected))

PairRecording ==
    \E recording \in BOOLEAN :
        PairStep(setRecording(dualStore, recording),
                 single_setRecording(singleStore, recording))

PairPlayback ==
    \E playing \in BOOLEAN :
        PairStep(setPlaying(dualStore, playing),
                 single_setPlaying(singleStore, playing))

PairSTTResult ==
    \E type \in { "partial", "final" }, text \in STTTexts :
        PairStep(handleSTTResult(dualStore, type, text),
                 single_handleSTTData(singleStore, type = "final", text))

PairLLMResponse ==
    \E text \in LLMTexts :
        PairStep(handleLLMResponse(dualStore, text),
                 single_handleLLMResponse(singleStore, text))

PairError ==
    \E errorData \in ServerErrors :
        PairStep(handleError(dualStore, errorData),
                 single_setError(singleStore, errorData))

PairInterrupt ==
    PairStep(triggerInterrupt(dualStore), single_triggerInterrupt(singleStore))

NextPair ==
    \/ PairConnection
    \/ PairRecording
    \/ PairPlayback
    \/ PairSTTResult
    \/ PairLLMResponse
    \/ PairError
    \/ PairInterrupt

SpecPair == Init /\ [][NextPair]_vars

----
(***************************************************************************)
(* AudioPlayer (part_004) element by element.  An element is "loading"      *)
(* after play() until playback starts, "playing", "paused" after pause(),  *)
(* or "ended".  The player is the record of its elements and currentAudio. *)
(***************************************************************************)
MaxElements == 5

AudioPlayer == [ elements |-> elements, currentAudio |-> currentAudio ]

\* HTMLMediaElement.pause(): an element that is loading or playing becomes paused
Pause(e) == IF e \in { "loading", "playing" } THEN "paused" ELSE e

AudioPlayer_stopAudio(p) ==
    IF p.currentAudio = 0 THEN p
    ELSE [ p EXCEPT !.elements[p.currentAudio] = Pause(@), !.currentAudio = 0 ]

\* playAudio that leaves the current element alone
AudioPlayer_playAudioNoStop(p) ==
    [ p EXCEPT !.elements = Append(@, "loading"),
               !.currentAudio = Len(p.elements) + 1 ]

\* playAudio with autoplay: stopAudio(), new Audio(), play()
AudioPlayer_playAudio(p) ==
    LET p1 == AudioPlayer_stopAudio(p)
    IN  [ p1 EXCEPT !.elements = Append(@, "loading"),
                    !.currentAudio = Len(p1.elements) + 1 ]

AudioPlayer_pauseAudio(p) ==
    IF p.currentAudio # 0 /\ p.elements[p.currentAudio] \in { "loading", "playing" }
    THEN [ p EXCEPT !.elements[p.currentAudio] = "paused" ]
    ELSE p

\* resumeAudio: play() on the current element when it is paused (an ended
\* element is paused too)
AudioPlayer_resumeAudio(p) ==
    IF p.currentAudio # 0 /\ p.elements[p.currentAudio] \in { "paused", "ended" }
    THEN [ p EXCEPT !.elements[p.currentAudio] = "loading" ]
    ELSE p

PlayerStep(p) ==
    /\ elements' = p.elements
    /\ currentAudio' = p.currentAudio
    /\ UNCHANGED << sessionVars, transportVars, dispatchVars, watchdogVars, chunkVars,
                    pairVars >>

PlayerPlayAudio ==
    /\ Len(elements) < MaxElements
    /\ PlayerStep(AudioPlayer_playAudio(AudioPlayer))

PlayerStopAudio == PlayerStep(AudioPlayer_stopAudio(AudioPlayer))

PlayerPauseAudio == PlayerStep(AudioPlayer_pauseAudio(AudioPlayer))

PlayerResumeAudio == PlayerStep(AudioPlayer_resumeAudio(AudioPlayer))

\* playback of an element starts
ElementPlaying ==
    \E i \in DOMAIN elements :
        /\ elements[i] = "loading"
        /\ PlayerStep([ AudioPlayer EXCEPT !.elements[i] = "playing" ])

\* playback of an element reaches the end
ElementEnded ==
    \E i \in DOMAIN elements :
        /\ elements[i] = "playing"
        /\ PlayerStep([ AudioPlayer EXCEPT !.elements[i] = "ended" ])

NextPlayer ==
    \/ PlayerPlayAudio
    \/ PlayerStopAudio
    \/ PlayerPauseAudio
    \/ PlayerResumeAudio
    \/ ElementPlaying
    \/ ElementEnded

SpecPlayer == Init /\ [][NextPlayer]_vars

\* Start and stop by the user, with the recorder's events and no server message.
NextRestart ==
    \/ SocketOpened
    \/ SocketClosed
    \/ InitializeRecording
    \/ StartConversation
    \/ StopConversation
    \/ RecorderChunkEvent
    \/ RecorderStopEvent

SpecRestart == Init /\ [][NextRestart]_vars

\* useConversation's canStartConversation
canStartConversation ==
    /\ ~store.isRecording
    /\ ~store.isPlaying
    /\ store.isConnected
    /\ ~isGoodbyePlaying
    /\ store.state \in { "idle", "error" }

\* Legacy and dual-path responses across turns, with the Turn tts_result records.
NextStale ==
    \/ SocketOpened
    \/ SocketClosed
    \/ Interrupt
    \/ MsgLLMStart
    \/ MsgLLMResponse
    \/ MsgLLMFinalResponse
    \/ MsgTTSResult
    \/ AudioPlayEvent
    \/ AudioEndedEvent

SpecStale == Init /\ [][NextStale]_vars

\* the response texts the server has sent since the turn began
TurnTexts == { turnLog[i][2] : i \in DOMAIN turnLog }

\* Connection attempts that fail, with the close and open notifications around
\* them and the user's start and stop.
NextConnect ==
    \/ SocketOpened
    \/ SocketClosed
    \/ ConnectFailed
    \/ Disconnect
    \/ InitializeRecording
    \/ StartConversation
    \/ StopConversation
    \/ RecorderStopEvent

SpecConnect == Init /\ [][NextConnect]_vars

\* The audio of the two TTS paths, each replacing what plays, with the events of
\* the current element and of the elements that were replaced.
NextReplace ==
    \/ SocketOpened
    \/ SocketClosed
    \/ MsgLLMStart
    \/ MsgTTSImmediateResult
    \/ MsgTTSFinalResult
    \/ AudioPlayEvent
    \/ AudioEndedEvent
    \/ DetachedPlayEvent
    \/ DetachedPauseEvent
    \/ PlayAborted

SpecReplace == Init /\ [][NextReplace]_vars

\* the elements that are playing or about to play
ActiveElements == { i \in DOMAIN elements : elements[i] \in { "loading", "playing" } }

\* the fields both stores have and the comparison is about
ComparedFields ==
    { "state", "isConnected", "isRecording", "isPlaying", "currentText", "finalText",
      "aiResponse", "error" }

----
(***************************************************************************)
(* WebSocketService: the handler array of one message type, onMessage /    *)
(* offMessage, and handleMessage's forEach over the live array.            *)
(***************************************************************************)
HandlerIds == 1..MaxHandlers

InSeq(x, seq) == \E i \in 1..Len(seq) : seq[i] = x

\* Array.prototype.indexOf, 1-based, 0 when absent
IndexOf(seq, x) ==
    IF InSeq(x, seq) THEN CHOOSE i \in 1..Len(seq) :
                              seq[i] = x /\ \A j \in 1..(i - 1) : seq[j] # x
    ELSE 0

\* Array.prototype.splice(index, 1)
SpliceOut(seq, i) ==
    [ j \in 1..(Len(seq) - 1) |-> IF j < i THEN seq[j] ELSE seq[j + 1] ]

\* WebSocketService.offMessage on the array of the type
offMessage(seq, handler) ==
    IF IndexOf(seq, handler) > 0 THEN SpliceOut(seq, IndexOf(seq, handler)) ELSE seq

\* WebSocketService.onMessage on the array of the type
onMessage(seq, handler) == Append(seq, handler)

\* the elements forEach will still reach: indices dIdx..dLen that exist
CountOf(seq, x) == Cardinality({ i \in 1..Len(seq) : seq[i] = x })

\* frames on the wire: a well-formed envelope of the type, or text that is not JSON
Frames == { "message", "garbage" }

\* JSON.parse accepting any text
JSONParseLenient(frame) == "message"

\* JSON.parse(event.data) in handleMessage: throws a SyntaxError on text that is
\* not JSON, caught by the outer try
JSONParse(frame) == IF frame = "garbage" THEN "SyntaxError" ELSE frame

\* forEach with no try/catch around the handler: a throw ends the loop
nextIndexUncaught(idx, len, didThrow) == IF didThrow THEN len + 1 ELSE idx + 1

\* the try/catch inside the forEach callback: a throw ends that callback only
nextIndex(idx, len, didThrow) == idx + 1

OnMessage ==
    \E h \in HandlerIds :
        /\ ~dispatching
        /\ ~InSeq(h, handlers)
        /\ handlers' = onMessage(handlers, h)
        /\ UNCHANGED << dispatching, dIdx, dLen, atStart, removed, invoked, threw,
                        lastFrame, prevFrame >>
        /\ UNCHANGED transportVars /\ SessionUnchanged

OffMessage ==
    \E h \in HandlerIds :
        /\ ~dispatching
        /\ handlers' = offMessage(handlers, h)
        /\ handlers' # handlers
        /\ UNCHANGED << dispatching, dIdx, dLen, atStart, removed, invoked, threw,
                        lastFrame, prevFrame >>
        /\ UNCHANGED transportVars /\ SessionUnchanged

\* handleMessage(event): parse, then forEach over the handlers of the type, which
\* samples the length once and walks the live array
handleMessage(frame) ==
    /\ ~dispatching
    /\ handlers # << >>
    /\ lastFrame' = frame
    /\ prevFrame' = lastFrame
    /\ IF JSONParse(frame) = "SyntaxError"
       THEN UNCHANGED << dispatching, dIdx, dLen, atStart, removed, invoked, threw >>
       ELSE /\ dispatching' = TRUE
            /\ dIdx' = 1
            /\ dLen' = Len(handlers)
            /\ atStart' = handlers
            /\ removed' = {}
            /\ invoked' = << >>
            /\ threw' = {}
    /\ UNCHANGED handlers
    /\ UNCHANGED transportVars /\ SessionUnchanged

\* a well-formed message of the type arrives
DispatchBegin == handleMessage("message")

\* a frame that is not JSON arrives
MalformedFrame == handleMessage("garbage")

\* one iteration of forEach: an index past the end of the array is skipped; the
\* handler called may unregister a handler of the type and may throw
DispatchStep ==
    /\ dispatching
    /\ dIdx <= dLen
    /\ IF dIdx <= Len(handlers)
       THEN /\ invoked' = Append(invoked, handlers[dIdx])
            /\ \E target \in HandlerIds \cup { 0 } :
                   IF target # 0 /\ InSeq(target, handlers)
                   THEN /\ handlers' = offMessage(handlers, target)
                        /\ removed' = removed \cup { target }
                   ELSE UNCHANGED << handlers, removed >>
            /\ \E didThrow \in BOOLEAN :
                   /\ threw' = IF didThrow THEN threw \cup { handlers[dIdx] } ELSE threw
                   /\ dIdx' = nextIndex(dIdx, dLen, didThrow)
       ELSE /\ dIdx' = dIdx + 1
            /\ UNCHANGED << invoked, handlers, removed, threw >>
    /\ UNCHANGED << dispatching, dLen, atStart, lastFrame, prevFrame >>
    /\ UNCHANGED transportVars /\ SessionUnchanged

DispatchEnd ==
    /\ dispatching
    /\ dIdx > dLen
    /\ dispatching' = FALSE
    /\ UNCHANGED << handlers, dIdx, dLen, atStart, removed, invoked, threw,
                    lastFrame, prevFrame >>
    /\ UNCHANGED transportVars /\ SessionUnchanged

NextDispatch ==
    \/ OnMessage
    \/ OffMessage
    \/ DispatchBegin
    \/ MalformedFrame
    \/ DispatchStep
    \/ DispatchEnd

SpecDispatch == Init /\ [][NextDispatch]_vars

----
(***************************************************************************)
(* useConversation: the inactivity watchdog and the goodbye sequence.      *)
(*                                                                         *)
(* A callback made by useCallback sees isConnected / isRecording /         *)
(* isPlaying as they were in the render that made it.  The functions the   *)
(* page calls come from the last render (closure); the handlers the effect *)
(* registered were made by the first render (FirstRender), and the effect  *)
(* returns at once when it runs again, so that its cleanup, which runs as  *)
(* soon as one of its dependencies changes, unregisters them for good.     *)
(* A store update is followed by its render before anything else happens.  *)
(***************************************************************************)
MaxGoodbyes == 2

\* the values a render now would close over
Rendered ==
    [ isConnected |-> store.isConnected,
      isRecording |-> store.isRecording,
      isPlaying |-> store.isPlaying ]

Dirty == closure # Rendered

\* resetUserActivityTimer made by a render that saw c: the pending timer is
\* cleared, and a new one is armed only if c says the conversation is active
resetUserActivityTimer(c) ==
    IF c.isConnected /\ (c.isRecording \/ c.isPlaying) THEN "fresh" ELSE "none"

\* the teardown at the end of a goodbye sequence (and in its catch): both
\* timers cleared, websocketService.disconnect(), audioService.cleanup()
goodbyeDisconnect(s) == cleanup([ s EXCEPT !.wsOpen = FALSE ])

\* History kept with each sequence in progress: overridden, an explicit
\* stopConversation() or disconnect() was called after it began; flagReset,
\* isGoodbyePlaying was set back to false after it began
MarkGoodbyes(seq, isDisconnect) ==
    [ i \in DOMAIN seq |->
        [ seq[i] EXCEPT !.overridden = TRUE, !.flagReset = (@ \/ isDisconnect) ] ]

RemoveAt(seq, i) ==
    [ j \in 1 .. (Len(seq) - 1) |-> IF j < i THEN seq[j] ELSE seq[j + 1] ]

CommitWatchdog(s) ==
    /\ CommitSession(s, "other", NoPre, turnLog, 0)
    /\ UNCHANGED << transportVars, dispatchVars, chunkVars, pairVars, playerVars >>

\* a render after a store update: new callbacks; the effect's dependencies
\* changed, so its cleanup runs (handlers unregistered, timers cleared) and
\* the effect body returns early
WdRender ==
    /\ Dirty
    /\ closure' = Rendered
    /\ registered' = FALSE
    /\ userActivityTimeout' = IF registered THEN "none" ELSE userActivityTimeout
    /\ wlast' = [ op |-> "other" ]
    /\ CommitWatchdog([ Session EXCEPT !.audioCallbacks = (@ /\ ~registered) ])
    /\ UNCHANGED << timerClosure, isGoodbyePlaying, goodbyes >>

\* ws.onopen -> notifyConnectionChange(true) -> handleConnection(true), if registered
WdSocketOpened ==
    /\ ~Dirty
    /\ ~wsOpen
    /\ wlast' = [ op |-> "other" ]
    /\ CommitWatchdog([ Session EXCEPT !.wsOpen = TRUE,
                           !.store = IF registered THEN setConnected(@, TRUE) ELSE @ ])
    /\ UNCHANGED << userActivityTimeout, timerClosure, isGoodbyePlaying, goodbyes,
                    closure, registered >>

\* ws.onclose -> notifyConnectionChange(false) -> handleConnection(false), which
\* also clears the inactivity timer, if registered
WdSocketClosed ==
    /\ ~Dirty
    /\ wsOpen
    /\ userActivityTimeout' = IF registered THEN "none" ELSE userActivityTimeout
    /\ wlast' = [ op |-> "other" ]
    /\ CommitWatchdog([ Session EXCEPT !.wsOpen = FALSE,
                           !.store = IF registered THEN setConnected(@, FALSE) ELSE @ ])
    /\ UNCHANGED << timerClosure, isGoodbyePlaying, goodbyes, closure, registered >>

\* a server message reaches handleMessage: stt_start has the store's handler,
\* llm_immediate_response the wrapped one that also resets the timer
WdMessage ==
    /\ ~Dirty
    /\ wsOpen
    /\ \E type \in { "stt_start", "llm_immediate_response" }, text \in LLMTexts :
        /\ wlast' = [ op |-> "message", type |-> type ]
        /\ userActivityTimeout' =
              IF registered /\ type = "llm_immediate_response"
              THEN resetUserActivityTimer(FirstRender)
              ELSE userActivityTimeout
        /\ timerClosure' =
              IF registered /\ type = "llm_immediate_response"
              THEN FirstRender.isRecording
              ELSE timerClosure
        /\ CommitWatchdog([ Session EXCEPT !.store =
              IF ~registered THEN @
              ELSE IF type = "stt_start" THEN handleSTTStart(@)
              ELSE handleLLMImmediateResponse(@, text) ])
    /\ UNCHANGED << isGoodbyePlaying, goodbyes, closure, registered >>

\* useConversation.startConversation
WdStartConversation ==
    /\ ~Dirty
    /\ \E sendOk \in BOOLEAN :
        LET s1 == startRecording(Session)
            s2 == sendMessage(s1, "start_conversation", sendOk)
        IN  CommitWatchdog([ s2 EXCEPT !.store = setRecording(@, TRUE) ])
    /\ userActivityTimeout' = resetUserActivityTimer(closure)
    /\ timerClosure' = closure.isRecording
    /\ wlast' = [ op |-> "other" ]
    /\ UNCHANGED << isGoodbyePlaying, goodbyes, closure, registered >>

\* useConversation.stopConversation: the inactivity timer is cleared
WdStopConversation ==
    /\ ~Dirty
    /\ \E sendOk \in BOOLEAN :
        LET s1 == stopRecording(Session)
            s2 == sendMessage(s1, "end_conversation", sendOk)
        IN  CommitWatchdog([ s2 EXCEPT !.store = setRecording(@, FALSE) ])
    /\ userActivityTimeout' = "none"
    /\ goodbyes' = MarkGoodbyes(goodbyes, FALSE)
    /\ wlast' = [ op |-> "explicit" ]
    /\ UNCHANGED << timerClosure, isGoodbyePlaying, closure, registered >>

\* useConversation.interrupt, ending with resetUserActivityTimer()
WdInterrupt ==
    /\ ~Dirty
    /\ \E sendOk \in BOOLEAN : CommitWatchdog(interrupt(Session, sendOk))
    /\ userActivityTimeout' = resetUserActivityTimer(closure)
    /\ timerClosure' = closure.isRecording
    /\ wlast' = [ op |-> "other" ]
    /\ UNCHANGED << isGoodbyePlaying, goodbyes, closure, registered >>

\* useConversation.disconnect: timers cleared, the re-entrancy ref reset,
\* websocketService.disconnect(), audioService.cleanup()
WdDisconnect ==
    /\ ~Dirty
    /\ userActivityTimeout' = "none"
    /\ isGoodbyePlaying' = FALSE
    /\ goodbyes' = MarkGoodbyes(goodbyes, TRUE)
    /\ wlast' = [ op |-> "explicit" ]
    /\ CommitWatchdog(cleanup([ Session EXCEPT !.wsOpen = FALSE ]))
    /\ UNCHANGED << timerClosure, closure, registered >>

\* INACTIVITY_TIMEOUT elapses with the timer still pending; the one-second
\* timer of a goodbye sequence, set earlier, has fired by then
WdTimePasses ==
    /\ ~Dirty
    /\ userActivityTimeout = "fresh"
    /\ \A i \in DOMAIN goodbyes : goodbyes[i].phase # "closing"
    /\ userActivityTimeout' = "aged"
    /\ wlast' = [ op |-> "other" ]
    /\ UNCHANGED << sessionVars, transportVars, dispatchVars, chunkVars, pairVars, playerVars,
                    timerClosure,
                    isGoodbyePlaying, goodbyes, closure, registered >>


\* a sequence that has just begun: the notice is being spoken
NewGoodbye == [ phase |-> "speaking", overridden |-> FALSE, flagReset |-> FALSE ]

\* a goodbye that begins whether or not one is already in progress
playGoodbyeAndDisconnectUnguarded(s, playing, seqs, rec, speakOk) ==
    LET s1 == IF rec
              THEN [ stopRecording(s) EXCEPT !.store = setRecording(@, FALSE) ]
              ELSE s
    IN  IF speakOk
        THEN [ s |-> s1, playing |-> TRUE, seqs |-> Append(seqs, NewGoodbye),
               started |-> TRUE ]
        ELSE [ s |-> goodbyeDisconnect(s1), playing |-> FALSE, seqs |-> seqs,
               started |-> TRUE ]

\* playGoodbyeAndDisconnect as made by a render that saw isRecording = rec.
\* Nothing happens while isGoodbyePlaying; otherwise the ref is set, capture is
\* stopped if rec, and the notice is spoken; if creating or speaking the
\* utterance throws (speakOk = FALSE), the catch tears down at once
playGoodbyeAndDisconnect(s, playing, seqs, rec, speakOk) ==
    IF playing
    THEN [ s |-> s, playing |-> playing, seqs |-> seqs, started |-> FALSE ]
    ELSE LET s1 == IF rec
                   THEN [ stopRecording(s) EXCEPT !.store = setRecording(@, FALSE) ]
                   ELSE s
         IN  IF speakOk
             THEN [ s |-> s1, playing |-> TRUE, seqs |-> Append(seqs, NewGoodbye),
                    started |-> TRUE ]
             ELSE [ s |-> goodbyeDisconnect(s1), playing |-> FALSE, seqs |-> seqs,
                    started |-> TRUE ]

\* the inactivity timer fires and runs the callback of the render that armed it
WdExpire ==
    /\ ~Dirty
    /\ userActivityTimeout = "aged"
    /\ \E speakOk \in BOOLEAN :
        LET r == playGoodbyeAndDisconnect(Session, isGoodbyePlaying, goodbyes,
                                          timerClosure, speakOk)
        IN  /\ Len(r.seqs) <= MaxGoodbyes
            /\ isGoodbyePlaying' = r.playing
            /\ goodbyes' = r.seqs
            /\ wlast' = [ op |-> "expire", started |-> r.started ]
            /\ CommitWatchdog(r.s)
    /\ userActivityTimeout' = "none"
    /\ UNCHANGED << timerClosure, closure, registered >>

\* utterance.onend / utterance.onerror: the one-second timer is set
WdUtteranceEnds ==
    /\ ~Dirty
    /\ \E i \in DOMAIN goodbyes :
        /\ goodbyes[i].phase = "speaking"
        /\ goodbyes' = [ goodbyes EXCEPT ![i].phase = "closing" ]
    /\ wlast' = [ op |-> "other" ]
    /\ UNCHANGED << sessionVars, transportVars, dispatchVars, chunkVars, pairVars, playerVars,
                    userActivityTimeout,
                    timerClosure, isGoodbyePlaying, closure, registered >>

\* the one-second timer of a goodbye sequence fires: teardown, ref reset
WdGoodbyeTimeout ==
    /\ ~Dirty
    /\ \E i \in DOMAIN goodbyes :
        /\ goodbyes[i].phase = "closing"
        /\ goodbyes' = [ j \in 1 .. (Len(goodbyes) - 1) |->
                           [ RemoveAt(goodbyes, i)[j] EXCEPT !.flagReset = TRUE ] ]
        /\ wlast' = [ op |-> "goodbyeDisconnect",
                      overridden |-> goodbyes[i].overridden,
                      wasOpen |-> wsOpen ]
    /\ userActivityTimeout' = "none"
    /\ isGoodbyePlaying' = FALSE
    /\ CommitWatchdog(goodbyeDisconnect(Session))
    /\ UNCHANGED << timerClosure, closure, registered >>

NextWatchdog ==
    \/ WdRender
    \/ WdSocketOpened
    \/ WdSocketClosed
    \/ WdMessage
    \/ InitializeRecording
    \/ WdStartConversation
    \/ WdStopConversation
    \/ WdInterrupt
    \/ WdDisconnect
    \/ WdTimePasses
    \/ WdExpire
    \/ WdUtteranceEnds
    \/ WdGoodbyeTimeout
    \/ RecorderStopEvent

SpecWatchdog == Init /\ [][NextWatchdog]_vars

----
(***************************************************************************)
(* Properties                                                              *)
(***************************************************************************)
StrictlyIncreasing(seq) == \A i \in 1..(Len(seq) - 1) : seq[i] < seq[i + 1]

AllSocketsClosed == \A i \in 1..Len(sockets) : sockets[i] = "closed"

\* every scheduled attempt of the run has failed and nothing is pending
Exhausted ==
    /\ Len(schedLog) = maxReconnectAttempts
    /\ timers = << >>
    /\ AllSocketsClosed

\* C1: whatever the store held, after the connection-lost notification the state
\* is Disconnected, isConnected / isRecording / isPlaying are false and the
\* dual-path fields are empty.
C1_ConnectionLossDominance ==
    lastOp = "connectionLost" =>
        /\ store.state = "disconnected"
        /\ ~store.isConnected
        /\ ~store.isRecording
        /\ ~store.isPlaying
        /\ DualPathEmpty(store)

C1_Witness ==
    /\ lastOp = "connectionLost"
    /\ pre.state = "speaking"
    /\ pre.isPlaying
    /\ pre.buffers

\* C2: the delays scheduled since the last open or explicit connect() number at
\* most maxReconnectAttempts and strictly increase; once the last of them has
\* failed the service stays disconnected with no socket and no timer until
\* connect() is called explicitly.
C2_ReconnectBound ==
    /\ [](Len(schedLog) <= maxReconnectAttempts /\ StrictlyIncreasing(schedLog))
    /\ [][(Exhausted /\ explicitConnects' = explicitConnects) =>
             (Exhausted' /\ status' = "disconnected" /\ Len(sockets') = Len(sockets))]_vars

C2_Witness ==
    /\ Exhausted
    /\ status = "disconnected"
    /\ ~isManualClose
    /\ schedLog[1] < schedLog[maxReconnectAttempts]

\* C3 (as the specification states it): after disconnect() no socket is created
\* until connect() is called explicitly.
C3_DisconnectSuppressesReconnect ==
    [][(sinceDisconnect /\ explicitConnects' = explicitConnects) =>
          Len(sockets') = Len(sockets)]_vars

\* C4: in a turn opened by llm_start, after immediate(A) then final(B) the
\* response text is B and hasFinalResponse is true; after immediate(A) alone it
\* is A and hasFinalResponse is false.
C4_FinalSupersedesImmediate ==
    /\ (Len(turnLog) = 2 /\ turnLog[1][1] = "immediate" /\ turnLog[2][1] = "final") =>
           (ResponseText(store) = turnLog[2][2] /\ store.hasFinalResponse)
    /\ (Len(turnLog) = 1 /\ turnLog[1][1] = "immediate") =>
           (ResponseText(store) = turnLog[1][2] /\ ~store.hasFinalResponse)

C4_Witness ==
    /\ turnLog = << << "immediate", "A" >>, << "final", "B" >> >>
    /\ lastOp = "llm_final_response"
    /\ store.immediateResponse = "A"

\* C5 (as the specification states it): once stt_start has been handled the
\* dual-path fields are empty.
C5_ClearOnSTTStart ==
    lastOp = "stt_start" => DualPathEmpty(store)

\* C6: interrupt() called in Speaking with audio playing leaves isPlaying false,
\* no current audio element, the dual-path fields empty, the state Listening and
\* isRecording true.
C6_InterruptWhileSpeaking ==
    (lastOp = "interrupt" /\ pre.state = "speaking" /\ pre.isPlaying) =>
        /\ ~store.isPlaying
        /\ player = "none"
        /\ DualPathEmpty(store)
        /\ store.state = "listening"
        /\ store.isRecording

C6_Witness ==
    /\ lastOp = "interrupt"
    /\ pre.state = "speaking"
    /\ pre.isPlaying
    /\ pre.player = "playing"
    /\ pre.buffers
    /\ pre.recorder = "inactive"
    /\ recorder = "recording"

\* C7 (as the specification states it): interrupt() called outside Speaking
\* changes neither the state, the flags nor the buffers, sends no interrupt
\* envelope and starts no capture.
C7_InterruptNoOpOutsideSpeaking ==
    (lastOp = "interrupt" /\ pre.state # "speaking") =>
        /\ store.state = pre.state
        /\ store.isRecording = pre.isRecording
        /\ store.isPlaying = pre.isPlaying
        /\ DualPathEmpty(store) = ~pre.buffers
        /\ ~InSeq("send:interrupt", fx)
        /\ ~InSeq("recorder.start", fx)

\* C8 (as the specification states it): the second of two interrupt() calls made
\* in immediate succession from Speaking changes nothing and has no side effect.
C8_InterruptIdempotent ==
    interruptRun = 2 =>
        /\ store.state = pre.state
        /\ store.isRecording = pre.isRecording
        /\ store.isPlaying = pre.isPlaying
        /\ player = pre.player
        /\ recorder = pre.recorder
        /\ ~InSeq("send:interrupt", fx)
        /\ ~InSeq("player.stop", fx)
        /\ ~InSeq("recorder.start", fx)

\* the effects interrupt() has on the services, in order, from the session it
\* was called in
ExpectedInterruptEffects ==
    (IF pre.wsOpen /\ pre.sendOk THEN << "send:interrupt" >> ELSE << >>)
    \o (IF pre.player # "none" THEN << "player.stop" >> ELSE << >>)
    \o << "store.triggerInterrupt" >>
    \o (IF pre.recorder = "uninit" THEN << "recorder.start:rejected" >>
        ELSE IF pre.recorder = "inactive" THEN << "recorder.start" >>
        ELSE << >>)
    \o << "store.setRecording(true)" >>

\* C9: interrupt() called in Speaking performs its steps in the order send,
\* stop playback, clear the buffers, restart capture and enter Listening; a step
\* that fails or has nothing to act on does not keep the others from running.
C9_InterruptCompletesAllSteps ==
    (lastOp = "interrupt" /\ pre.state = "speaking") =>
        /\ fx = ExpectedInterruptEffects
        /\ player = "none"
        /\ DualPathEmpty(store)
        /\ store.state = "listening"

C9_Witness ==
    /\ lastOp = "interrupt"
    /\ pre.state = "speaking"
    /\ pre.wsOpen
    /\ ~pre.sendOk
    /\ fx = << "player.stop", "store.triggerInterrupt", "recorder.start",
               "store.setRecording(true)" >>

\* C10 (as the specification states it): when a dispatch has ended, every
\* handler registered at its start and not removed during it was invoked
\* exactly once.
C10_DispatchToleratesMutation ==
    (~dispatching /\ atStart # << >>) =>
        \A h \in HandlerIds :
            (InSeq(h, atStart) /\ h \notin removed) => CountOf(invoked, h) = 1

\* seq1 is seq2 with some elements left out, order kept
RECURSIVE IsSubSeq(_, _)
IsSubSeq(seq1, seq2) ==
    IF seq1 = << >> THEN TRUE
    ELSE IF seq2 = << >> THEN FALSE
    ELSE IF Head(seq1) = Head(seq2) THEN IsSubSeq(Tail(seq1), Tail(seq2))
    ELSE IsSubSeq(seq1, Tail(seq2))

\* C11: the handlers are invoked in registration order, none twice, and when a
\* dispatch in which no handler was unregistered has ended every registered
\* handler has been invoked, whichever of them threw.
C11_HandlerOrderAndIsolation ==
    /\ IsSubSeq(invoked, atStart)
    /\ (~dispatching /\ removed = {}) => invoked = atStart

C11_Witness ==
    /\ ~dispatching
    /\ removed = {}
    /\ Len(atStart) = MaxHandlers
    /\ atStart[1] \in threw
    /\ invoked = atStart

\* C12: a frame that is not JSON starts no dispatch, invokes no handler and leaves
\* the registry and the store as they were; the message that follows it is
\* dispatched to every handler.
C12_MalformedDropped ==
    /\ [][(/\ lastFrame' = "garbage"
           /\ prevFrame' = lastFrame
           /\ << lastFrame, prevFrame >>' # << lastFrame, prevFrame >>) =>
             (/\ UNCHANGED << handlers, dispatching, invoked, threw, atStart, removed >>
              /\ store' = store)]_vars
    /\ []((prevFrame = "garbage" /\ lastFrame = "message" /\ ~dispatching /\ removed = {})
             => invoked = atStart)

C12_Witness ==
    /\ prevFrame = "garbage"
    /\ lastFrame = "message"
    /\ ~dispatching
    /\ Len(invoked) = MaxHandlers
    /\ invoked = atStart

\* C13: sendMessage puts nothing on the wire unless the current socket is OPEN
\* and the socket's send succeeds, never hands an exception to its caller, and
\* leaves the service's connection state as it was.
C13_SendNeverThrows ==
    /\ [](tlast.op = "send" =>
            tlast.fx = IF tlast.connected /\ tlast.sendOk
                       THEN << "send:" \o tlast.type >> ELSE << >>)
    /\ [][(tlast'.op = "send" /\ tlast' # tlast) => ConnectionUnchanged]_vars

C13_Witness ==
    /\ tlast.op = "send"
    /\ ~tlast.connected
    /\ ws = 0
    /\ sinceDisconnect
    /\ tlast.fx = << >>

\* C14 (as the specification states it): the k-th consecutive reconnect is
\* scheduled with delay reconnectDelay * 2^(k-1), and there are at most
\* maxReconnectAttempts of them.
C14_ExponentialBackoff ==
    explicitConnects <= 1 =>
        /\ Len(schedLog) <= maxReconnectAttempts
        /\ \A k \in 1..Len(schedLog) : schedLog[k] = reconnectDelay * 2 ^ (k - 1)

\* C15 (as the specification states it): a connection reported connected whose
\* heartbeats have gone unanswered MaxUnanswered times is eventually reported
\* otherwise, unless an acknowledgement arrives or the socket or the heartbeat
\* is given up first.
C15_HeartbeatLiveness ==
    (status = "connected" /\ isConnected /\ unanswered = MaxUnanswered)
        ~> (status # "connected" \/ ~isConnected \/ liveIntervals = 0
               \/ unanswered < MaxUnanswered)

\* C16 (as the specification states it): after disconnect() no heartbeat
\* callback runs until connect() is called again.
C16_NoTickAfterDisconnect ==
    ~(sinceDisconnect /\ tlast.op = "tick")

\* C17 (as the specification states it): whenever the inactivity timer is
\* pending, the session is connected and recording or playing.
C17_ArmedOnlyWhileActive ==
    userActivityTimeout # "none" =>
        /\ wsOpen
        /\ store.isConnected
        /\ store.isRecording \/ store.isPlaying

\* C18 (as the specification states it): a server message received while the
\* watchdog is armed restarts the countdown, so the timer is fresh after it.
C18_MessageRestartsCountdown ==
    (wlast.op = "message" /\ userActivityTimeout # "none") =>
        userActivityTimeout = "fresh"

C20_DisarmedAfterExplicitStop ==
    ~(wlast.op = "goodbyeDisconnect" /\ wlast.overridden /\ wlast.wasOpen)

\* C21 (as the specification states it): a final stt_result received in
\* Listening leaves the state Thinking with the transcript stored and capture
\* stopped: isRecording is false and the recorder no longer records.
C21_FinalTranscriptStopsCapture ==
    (lastOp = "stt_result:final" /\ pre.state = "listening") =>
        /\ store.state = "thinking"
        /\ store.finalText \in STTTexts
        /\ store.currentText = store.finalText
        /\ ~store.isRecording
        /\ recorder # "recording"

\* C22: whatever the state, an error message from the server leaves the state
\* Error, error equal to the message's data, and neither recording nor playing.
C22_ErrorDominance ==
    \A e \in ServerErrors :
        lastOp = "error:" \o e =>
            /\ store.state = "error"
            /\ store.error = e
            /\ ~store.isRecording
            /\ ~store.isPlaying

\* an error arrived while the reply was being played
C22_Witness ==
    /\ lastOp = "error:STT_FAILED"
    /\ player = "playing"
    /\ store.state = "error"
    /\ store.error = "STT_FAILED"

\* C23 (as the specification states it): while the state is Error, an inbound
\* stt_start or llm_* message leaves it Error.
C23_ErrorSticky ==
    [][(/\ store.state = "error"
        /\ lastOp' \in { "stt_start", "llm_start", "llm_immediate_response",
                         "llm_final_response" })
       => store'.state = "error"]_vars

\* C24 (as the specification states it): once the final-path TTS result of a
\* turn has been handled, conversationHistory has grown by exactly one Turn
\* in that turn.
C24_OneTurnPerExchange ==
    "tts_final_result" \in ttsSeen =>
        Len(store.conversationHistory) = histMark + 1

IsPrefix(seq1, seq2) ==
    /\ Len(seq1) <= Len(seq2)
    /\ \A i \in 1 .. Len(seq1) : seq1[i] = seq2[i]

\* C25: every step (message, connection loss and reconnection, interrupt,
\* error, playback event) leaves the conversationHistory it found as a
\* prefix of the new one.
C25_HistoryAppendOnly ==
    [][IsPrefix(store.conversationHistory, store'.conversationHistory)]_vars

\* two Turns were recorded and the connection was then lost
C25_Witness ==
    /\ Len(store.conversationHistory) = 2
    /\ lastOp = "connectionLost"

\* C26 (as the specification states it): the audio_chunk envelopes are on the
\* wire in the order of the sendAudioChunk calls that produced them.
C26_ChunkWireOrder ==
    \A i, j \in DOMAIN wire : i < j => wire[i].seq < wire[j].seq

\* C27: in a turn opened by llm_start, whether llm_final_response arrives before
\* or after llm_immediate_response, hasFinalResponse ends true and the response
\* text is the final text; when final has arrived alone, immediateResponse is
\* empty.
C27_ArrivalOrderIrrelevant ==
    /\ \A i, j \in DOMAIN turnLog :
           (Len(turnLog) = 2 /\ i # j /\ turnLog[i][1] = "final"
                /\ turnLog[j][1] = "immediate") =>
               (store.hasFinalResponse /\ ResponseText(store) = turnLog[i][2])
    /\ (Len(turnLog) = 1 /\ turnLog[1][1] = "final") =>
           (store.immediateResponse = "" /\ store.hasFinalResponse
                /\ ResponseText(store) = turnLog[1][2])

C27_Witness ==
    /\ turnLog = << << "final", "B" >>, << "immediate", "A" >> >>
    /\ lastOp = "llm_immediate_response"
    /\ store.immediateResponse = "A"
    /\ store.finalResponse = "B"

\* C28 (as the specification states it): when the audio of tts_immediate_result
\* finishes playing while the final-path TTS of the turn has not completed, the
\* state stays Speaking.  (Under Spec every playing element was started by
\* tts_immediate_result and no tts_final_result is delivered.)
C28_SpeakingHeldAcrossImmediate ==
    [][(player = "playing" /\ store.state = "speaking" /\ player' = "ended") =>
          store'.state = "speaking"]_vars

\* C29 (as the specification states it): when tts_start, tts_immediate_start or
\* tts_final_start arrives while the handlers are registered and the state is
\* Thinking or Listening, the state becomes Speaking.
C29_TTSStartReachesStateMachine ==
    [][(lastOp' \in { "tts_start", "tts_immediate_start", "tts_final_start" }
            /\ wsOpen /\ wsOpen'
            /\ store.state \in { "thinking", "listening" }) =>
          store'.state = "speaking"]_vars

\* C30 (as the specification states it): fed the same events, none of them a
\* dual-path message, the dual-path store and the single-path store agree after
\* every event on state, isConnected, isRecording, isPlaying, currentText,
\* finalText, aiResponse and error.
C30_DualGeneralizesSingle ==
    \A f \in ComparedFields : dualStore[f] = singleStore[f]

\* C31: after any sequence of playAudio, stopAudio, pauseAudio and resumeAudio
\* calls at most one Audio element is playing or about to play, and it is the
\* player's current element.
C31_AtMostOnePlayback ==
    /\ Cardinality(ActiveElements) <= 1
    /\ ActiveElements \subseteq { currentAudio }

C31_Witness ==
    /\ Len(elements) >= 2
    /\ elements[1] = "paused"
    /\ elements[2] = "playing"
    /\ currentAudio = 2

\* C32 (as the specification states it): the close event of a socket that
\* disconnect() closed, delivered while a newer socket is current and open,
\* does not notify the store of a disconnection, does not stop the heartbeat
\* and does not schedule a reconnect.
C32_LateCloseLeavesNewConnection ==
    [][(/\ isConnected /\ status = "connected" /\ heartbeatInterval
        /\ ws' = ws /\ sockets'[ws] = "open"
        /\ \E i \in DOMAIN sockets :
               i # ws /\ sockets[i] = "closing" /\ sockets'[i] = "closed") =>
          (status' = "connected" /\ heartbeatInterval' /\ timers' = timers)]_vars

\* C33 (as the specification states it): a WebSocketService has at most one
\* socket that is connecting or open.
C33_SingleLiveSocket ==
    Cardinality({ i \in DOMAIN sockets : sockets[i] \in { "connecting", "open" } }) <= 1

\* C34 (as the specification states it): while the hook is mounted its handlers
\* stay registered, so an stt_start received on the open connection is
\* dispatched to the store, which is in Listening afterwards.
C34_HandlersStayRegistered ==
    /\ registered
    /\ (wlast.op = "message" /\ wlast.type = "stt_start") => store.state = "listening"

\* C35 (as the specification states it): with no server message arriving, once
\* a conversation has been stopped on an open connection and the recorder has
\* delivered its stop event, canStartConversation is true.
C35_StoppedCanRestart ==
    (store.isConnected /\ ~store.isRecording /\ recorder = "inactive" /\ ~pendingStop)
        => canStartConversation

\* C36 (as the specification states it): after interrupt() the store reports
\* Listening with isRecording true only if the recorder is recording.
C36_RecordingFlagTruthful ==
    (lastOp = "interrupt" /\ store.isRecording /\ store.state = "listening") =>
        recorder = "recording"

\* C37 (as the specification states it): when the server has sent a response in
\* the turn being recorded, the aiResponse of the Turn appended to
\* conversationHistory is one of the responses of that turn, never a text left
\* from before the turn began.
C37_NoStaleResponse ==
    [][(/\ Len(store'.conversationHistory) = Len(store.conversationHistory) + 1
        /\ TurnTexts # {}) =>
          store'.conversationHistory[Len(store'.conversationHistory)].aiResponse
              \in TurnTexts]_vars

\* C38 (as the specification states it): while the store shows
\* CONNECTION_FAILED, the close notification of a socket that never opened and
\* the open notification of a retry leave the error in place.
C38_ConnectionFailureVisible ==
    [][(/\ store.error = "CONNECTION_FAILED"
        /\ ~wsOpen
        /\ (lastOp' = "connectionLost" \/ wsOpen')) =>
          store'.error = "CONNECTION_FAILED"]_vars

\* C39 (as the specification states it): when the final-path audio has replaced
\* an element and the pause notification of the replaced element is delivered
\* while the new element plays, the store keeps isPlaying true and the state
\* Speaking.
C39_PlayingSurvivesReplacement ==
    [][(/\ player = "playing" /\ store.isPlaying /\ store.state = "speaking"
        /\ "tts_final_result" \in ttsSeen /\ ~pendingPlay /\ ~pendingAbort
        /\ pendingPause /\ ~pendingPause' /\ player' = "playing") =>
          (store'.isPlaying /\ store'.state = "speaking")]_vars

\* C40 (as the specification states it): when the current socket, open, closes
\* without disconnect() having been called, the attempt counter goes from 0 to 1
\* and a reconnect is scheduled with the base delay.
C40_ReconnectBudgetPerOutage ==
    [][(isConnected /\ ~isManualClose /\ sockets'[ws] = "closed") =>
          (reconnectAttempts' = 1 /\ timers' = Append(timers, reconnectDelay))]_vars
====
